---- MODULE Spec2Model ----
(***************************************************************************)
(* A model of data_plotter.py: the directory watch loop, plotting_job and  *)
(* the signal-feature functions it calls.                                  *)
(*                                                                         *)
(* Number representation.  The program computes in floating point; the     *)
(* model computes the same quantities exactly, as integers:                *)
(*   - calibrated samples are integers, in millivolts;                     *)
(*   - a pedestal-subtracted voltage is carried as its numerator over the  *)
(*     number L of samples the pedestal mean was taken over (the mean of L *)
(*     integers has denominator L), so v volts is the integer 1000*L*v;    *)
(*   - a threshold fraction is carried in tenths (0.2 is 2);               *)
(*   - times are integers, in microseconds (-1.0 s is -1000000).           *)
(* Channels are numbered 0..3 as in the program; events and samples are    *)
(* the elements 1..n of sequences, and idx_max keeps the program's 0-based *)
(* sample index.                                                           *)
(***************************************************************************)
EXTENDS Integers, Sequences, FiniteSets, TLC

VARIABLES
    dir,              \* the paths data_path/*.hdf5 that exist now
    processed_files,  \* the set processed_files of the watch loop
    files_to_process, \* what the for loop of the watch loop has still to visit
    pc,               \* where the program is
    afile,            \* the path plotting_job was last called with
    cap,              \* the capture that call read from the file
    mask,             \* plotting_job: the coincidence mask
    ch,               \* plotting_job: the channel the loop is at
    trigger_t0s,      \* plotting_job: trigger_t0s (None, or crossing times)
    measure_t0s,      \* plotting_job: the dict measure_t0s
    pp,               \* plotting_job: the pages saved to the PdfPages so far
    tcross_log,       \* the last call of calculate_tcross, as it ended
    invoked,          \* per path: how often plotting_job was called (2: more than once)
    error             \* the exception that ended the program, or "none"

vars == <<dir, processed_files, files_to_process, pc, afile, cap, mask, ch,
          trigger_t0s, measure_t0s, pp, tcross_log, invoked, error>>

\* How many paths appear in the watched directory.
MaxFiles == 2

Paths == 1..MaxFiles
Channels == 0..3

---------------------------------------------------------------------------
(* Program constants *)

\* def calculate_voltages_raw(v_in, pedestal_length=400)
pedestal_length == 400
\* the amplitude cut 0.015 V of the coincidence mask, in millivolts
AmplitudeCut == 15
\* t0 = -1.0: the crossing time of an event without a rising edge, in microseconds
NoEdge == -1000000
\* t0s > -0.5: the validity cut of plot_tcross, in microseconds
ValidCut == -500000
\* gain_post = -1.0
gain_post == -1

\* scope_config; thresholds in tenths
scope_config ==
    [trigger |-> 2,
     gains |-> [c \in Channels |-> IF c = 3 THEN 1 ELSE gain_post],
     thresholds |-> [c \in Channels |-> IF c = 3 THEN 5 ELSE 2]]

---------------------------------------------------------------------------
(* numpy reductions over one axis, over the elements lo..hi of a sequence *)

\* a sequence given as [i \in 1..n |-> e], each element computed once
Eager(s) == s \o <<>>

\* the function on the channels 0..3 with the values F(c), each computed once
OnChannels(F(_)) == (0 :> F(0)) @@ (1 :> F(1)) @@ (2 :> F(2)) @@ (3 :> F(3))

RECURSIVE SumRange(_, _, _)
SumRange(s, lo, hi) ==
    IF lo > hi THEN 0
    ELSE IF lo = hi THEN s[lo]
    ELSE LET mid == (lo + hi) \div 2
         IN  SumRange(s, lo, mid) + SumRange(s, mid + 1, hi)

\* np.argmax: the first index of the largest element
RECURSIVE ArgMax(_, _, _)
ArgMax(s, lo, hi) ==
    IF lo = hi THEN lo
    ELSE LET mid == (lo + hi) \div 2
             l == ArgMax(s, lo, mid)
             r == ArgMax(s, mid + 1, hi)
         IN  IF s[r] > s[l] THEN r ELSE l

\* np.max
Max(s) == s[ArgMax(s, 1, Len(s))]

Abs(x) == IF x < 0 THEN -x ELSE x

\* np.argmin(abs(y - threshold)) over the samples lo..hi, the threshold in tenths
RECURSIVE ArgMinDist(_, _, _, _)
ArgMinDist(s, thr10, lo, hi) ==
    IF lo = hi THEN lo
    ELSE LET mid == (lo + hi) \div 2
             l == ArgMinDist(s, thr10, lo, mid)
             r == ArgMinDist(s, thr10, mid + 1, hi)
         IN  IF Abs(10 * s[r] - thr10) < Abs(10 * s[l] - thr10) THEN r ELSE l

\* a[mask] for a boolean mask over the first axis
RECURSIVE Compress(_, _)
Compress(a, m) ==
    IF a = <<>> THEN <<>>
    ELSE (IF Head(m) THEN <<Head(a)>> ELSE <<>>) \o Compress(Tail(a), Tail(m))

---------------------------------------------------------------------------
(* extract_dataset *)

\* The file as h5py shows it: the dataset's rows (one per recorded channel,
\* each events*nPt codes long), its second dimension (shape1) and attributes.
\* events = dataset.shape[1]//npoints
Events(file) == file.shape1 \div file.nPt

\* row.reshape(events, npoints)
Reshape(row, events, npoints) ==
    Eager([e \in 1..events |-> Eager([i \in 1..npoints |-> row[(e - 1) * npoints + i]])])

\* ich when the loop reaches channel i: the active channels before it
RowOf(chmask, i) == Cardinality({j \in Channels : j < i /\ chmask[j]})

extract_dataset(file) ==
    LET events == Events(file)
        active == {i \in Channels : file.chmask[i]}
    IN  IF \E i \in active : RowOf(file.chmask, i) + 1 > Len(file.dataset)
        THEN [status |-> "IndexError", data |-> <<>>, attrs |-> file]
        ELSE [status |-> "ok",
              data |-> OnChannels(LAMBDA i :
                  IF file.chmask[i]
                  THEN LET rows == Reshape(file.dataset[RowOf(file.chmask, i) + 1],
                                           events, file.nPt)
                           ymult == file.vertical[i][1]
                           yzero == file.vertical[i][2]
                       IN  Eager([e \in 1..events |-> Eager([k \in 1..file.nPt |-> (rows[e][k] - yzero) * ymult])])
                  ELSE Eager([e \in 1..events |-> Eager([k \in 1..file.nPt |-> 0])])),
              attrs |-> file]

---------------------------------------------------------------------------
(* calculate_voltages_raw, calculate_voltages *)

\* the length of v_in[:, :pedestal_length]: a slice ends at the array's end
PedestalWindow(npoints, pedestal_len) ==
    IF pedestal_len < npoints THEN pedestal_len ELSE npoints

\* v_in - mean(v_in[:, :pedestal_length]), as numerators over the window length
calculate_voltages_raw(v_in, pedestal_len) ==
    Eager([e \in 1..Len(v_in) |->
        LET w == v_in[e]
            L == PedestalWindow(Len(w), pedestal_len)
            s == SumRange(w, 1, L)
        IN  Eager([i \in 1..Len(w) |-> L * w[i] - s])])

\* gain_post_inv = 1.0/gain_post: the gains of scope_config are 1 and -1
calculate_voltages(v_in, gain, pedestal_len) ==
    LET gain_post_inv == IF gain < 0 THEN -(1 \div (-gain)) ELSE 1 \div gain
        raw == calculate_voltages_raw(v_in, pedestal_len)
    IN  Eager([e \in 1..Len(v_in) |-> Eager([i \in 1..Len(raw[e]) |-> gain_post_inv * raw[e][i]])])

\* what one millivolt is in the units of calculate_voltages' result
Millivolt(v_in, pedestal_len) ==
    IF v_in = <<>> THEN 1 ELSE PedestalWindow(Len(v_in[1]), pedestal_len)

---------------------------------------------------------------------------
(* The feature functions *)

\* plot_amplitude: v_pk, the values of the histogram it draws
plot_amplitude(dataset, ich, gain) ==
    LET v_preamp_pedsub == calculate_voltages(dataset[ich], gain, pedestal_length)
    IN  Eager([e \in 1..Len(v_preamp_pedsub) |-> Max(v_preamp_pedsub[e])])

\* the weights of the composite Simpson rule on n samples, n odd
SimpsonWeight(i, n) == IF i = 1 \/ i = n THEN 1 ELSE IF i % 2 = 0 THEN 4 ELSE 2

RECURSIVE SimpsonRange(_, _, _)
SimpsonRange(y, lo, hi) ==
    IF lo = hi THEN SimpsonWeight(lo, Len(y)) * y[lo]
    ELSE LET mid == (lo + hi) \div 2
         IN  SimpsonRange(y, lo, mid) + SimpsonRange(y, mid + 1, hi)

\* integrate.simps(norm*v, time) in units of norm/3 (norm = charge_norm/transCond);
\* the captures of this model have an odd number of samples
calculate_charge(v_in, dt, gain, pedestal_len) ==
    LET v_preamp_pedsub == calculate_voltages(v_in, gain, pedestal_len)
    IN  Eager([e \in 1..Len(v_in) |-> dt * SimpsonRange(v_preamp_pedsub[e], 1, Len(v_preamp_pedsub[e]))])

\* plot_charge: np.min(charges) raises ValueError on an empty array
plot_charge(dataset, ich, dt, gain) ==
    LET charges == calculate_charge(dataset[ich], dt, gain, pedestal_length)
    IN  [status |-> IF charges = <<>> THEN "ValueError" ELSE "ok",
         charges |-> charges]

\* calculate_tcross before its loop, and what the loop computes of an event
\* before it calls the root-finder: idx_max, threshold (in tenths) and start.
\* The spline interpolates, so on the sample grid it has the samples' values.
tcross_prepare(v_in, percent_thresh, dt, gain, pedestal_len) ==
    LET v_preamp_pedsub == calculate_voltages(v_in, gain, pedestal_len)
    IN  Eager([e \in 1..Len(v_in) |->
        LET y == v_preamp_pedsub[e]
                imax == ArgMax(y, 1, Len(y))
                threshold == y[imax] * percent_thresh
            IN  [idx_max |-> imax - 1,
                 threshold |-> threshold,
                 start |-> IF imax > 1
                           THEN (ArgMinDist(y, threshold, 1, imax - 1) - 1) * dt
                           ELSE 0]])

\* What optimize.newton may do from x0: converge on some root (given by its
\* distance from x0), or exhaust maxiter=500 iterations.
NewtonOutcomes ==
    {[converged |-> TRUE, root |-> 0], [converged |-> TRUE, root |-> 1],
     [converged |-> FALSE, root |-> 0]}

\* newton as it would be with disp=False: the last iterate, and no exception
newton_quiet(x0, outcome) == [status |-> "ok", value |-> x0 + outcome.root]

\* optimize.newton(f, x0=start, maxiter=500): raises RuntimeError when it
\* has not converged after maxiter iterations
newton(x0, outcome) ==
    IF outcome.converged
    THEN [status |-> "ok", value |-> x0 + outcome.root]
    ELSE [status |-> "RuntimeError", value |-> 0]

\* the loop with the test idx_max[evt] >= 0 in place of idx_max[evt] > 0
RECURSIVE tcross_loop_unguarded(_, _, _, _)
tcross_loop_unguarded(prep, outcomes, evt, acc) ==
    IF evt > Len(prep) THEN acc
    ELSE LET r == newton(prep[evt].start, outcomes[evt])
             called == [acc EXCEPT !.spline_calls[evt] = @ + 1,
                                   !.newton_calls[evt] = @ + 1,
                                   !.newton_result[evt] =
                                       IF outcomes[evt].converged THEN "converged"
                                       ELSE "failed"]
         IN  IF r.status # "ok"
             THEN [called EXCEPT !.status = r.status]
             ELSE tcross_loop_unguarded(prep, outcomes, evt + 1,
                                        [called EXCEPT !.t0s[evt] = r.value])

\* the loop of calculate_tcross from event evt on
RECURSIVE tcross_loop(_, _, _, _)
tcross_loop(prep, outcomes, evt, acc) ==
    IF evt > Len(prep) THEN acc
    ELSE IF prep[evt].idx_max > 0
    THEN LET r == newton(prep[evt].start, outcomes[evt])
             called == [acc EXCEPT !.spline_calls[evt] = @ + 1,
                                   !.newton_calls[evt] = @ + 1,
                                   !.newton_result[evt] =
                                       IF outcomes[evt].converged THEN "converged"
                                       ELSE "failed"]
         IN  IF r.status # "ok"
             THEN [called EXCEPT !.status = r.status]
             ELSE tcross_loop(prep, outcomes, evt + 1,
                              [called EXCEPT !.t0s[evt] = r.value])
    ELSE tcross_loop(prep, outcomes, evt + 1, [acc EXCEPT !.t0s[evt] = NoEdge])

\* calculate_tcross: status "ok" and the returned t0s, or the exception raised
\* (then nothing is returned); with how often it fitted a spline and called
\* the root-finder for each event
calculate_tcross(prep, outcomes) ==
    LET n == Len(prep)
        end == tcross_loop(prep, outcomes, 1,
                   [status |-> "ok",
                    t0s |-> Eager([e \in 1..n |-> 0]),
                    spline_calls |-> Eager([e \in 1..n |-> 0]),
                    newton_calls |-> Eager([e \in 1..n |-> 0]),
                    newton_result |-> Eager([e \in 1..n |-> "none"])])
    IN  [end EXCEPT !.t0s = IF end.status = "ok" THEN @ ELSE <<>>]

\* trigger_t0s=None
None == [isNone |-> TRUE, t0s |-> <<>>]
Some(t0s) == [isNone |-> FALSE, t0s |-> t0s]

\* plot_tcross without its line "mask = (t0s > -0.5) & (trigger_t0s > -0.5)"
plot_tcross_own_mask(t0s, trigger) ==
    LET m == Eager([e \in 1..Len(t0s) |-> t0s[e] > ValidCut])
        clean_t0s == Compress(t0s, m)
        clean_trigger_t0s == IF trigger.isNone THEN <<>> ELSE Compress(trigger.t0s, m)
        to_plot == IF trigger.isNone THEN clean_t0s
                   ELSE Eager([k \in 1..Len(clean_t0s) |->
                                  clean_t0s[k] - clean_trigger_t0s[k]])
    IN  [status |-> IF to_plot = <<>> THEN "ValueError" ELSE "ok",
         to_plot |-> to_plot]

\* plot_tcross up to range_hist: to_plot; np.min(to_plot) raises ValueError
\* on an empty array
plot_tcross(t0s, trigger) ==
    LET m == IF trigger.isNone
             THEN Eager([e \in 1..Len(t0s) |-> t0s[e] > ValidCut])
             ELSE Eager([e \in 1..Len(t0s) |-> t0s[e] > ValidCut /\ trigger.t0s[e] > ValidCut])
        clean_t0s == Compress(t0s, m)
        clean_trigger_t0s == IF trigger.isNone THEN <<>> ELSE Compress(trigger.t0s, m)
        to_plot == IF trigger.isNone THEN clean_t0s
                   ELSE Eager([k \in 1..Len(clean_t0s) |-> clean_t0s[k] - clean_trigger_t0s[k]])
    IN  [status |-> IF to_plot = <<>> THEN "ValueError" ELSE "ok",
         to_plot |-> to_plot]

\* the coincidence mask with >= in place of >
coincidence_mask_inclusive(data) ==
    LET above(i) ==
            LET v == calculate_voltages(data[i], scope_config.gains[i], pedestal_length)
            IN  Eager([e \in 1..Len(v) |->
                    Max(v[e]) >= AmplitudeCut * Millivolt(data[i], pedestal_length)])
        ch1 == above(0)
        ch2 == above(1)
        ch3 == above(2)
    IN  Eager([e \in 1..Len(data[0]) |-> ch1[e] /\ ch2[e] /\ ch3[e]])

\* the coincidence mask of plotting_job
coincidence_mask(data) ==
    LET above(i) ==
            LET v == calculate_voltages(data[i], scope_config.gains[i], pedestal_length)
            IN  Eager([e \in 1..Len(v) |-> Max(v[e]) > AmplitudeCut * Millivolt(data[i], pedestal_length)])
        ch1 == above(0)
        ch2 == above(1)
        ch3 == above(2)
    IN  Eager([e \in 1..Len(data[0]) |-> ch1[e] /\ ch2[e] /\ ch3[e]])

\* data[:,mask,:]
MaskEvents(data, m) == OnChannels(LAMBDA i : Compress(data[i], m))

---------------------------------------------------------------------------
(* The capture files the watched directory may hold *)

\* pulse shapes, in digitizer codes above the baseline
Big == <<0, 10, 30, 20, 5>>
Late == <<0, 0, 6, 20, 12>>
Edge == <<0, 5, 15, 10, 5>>
Small == <<0, 4, 10, 6, 2>>
Flat == <<0, 0, 0, 0, 0>>
Noise == <<0, 1, 0, 1, 0>>
Spike == <<50>>

\* n codes: the baseline, with the shape added from sample `at` on
Waveform(n, base, at, shape) ==
    Eager([i \in 1..n |-> base + (IF at <= i /\ i < at + Len(shape) THEN shape[i - at + 1] ELSE 0)])

\* channels 0..2 are read through an inverting amplifier: their pulses go down
Polarity(c, shape) == [i \in 1..Len(shape) |-> IF c = 3 THEN shape[i] ELSE -shape[i]]

RECURSIVE Flatten(_)
Flatten(rows) == IF rows = <<>> THEN <<>> ELSE Head(rows) \o Flatten(Tail(rows))

\* A capture of n samples per event.  pulses[c] gives channel c's events, each
\* <<shape, at>>; `recorded` is how many rows the dataset holds.
CaptureFile(chmask, recorded, n, base, dt, vertical, pulses) ==
    LET active == SelectSeq(<<0, 1, 2, 3>>, LAMBDA c : chmask[c])
        nev == Len(pulses[0])
        row(c) == Flatten(Eager([e \in 1..nev |-> Waveform(n, base, pulses[c][e][2], Polarity(c, pulses[c][e][1]))]))
    IN  [chmask |-> chmask,
         vertical |-> vertical,
         nPt |-> n,
         dt |-> dt,
         shape1 |-> nev * n,
         dataset |-> Eager([k \in 1..recorded |-> row(active[k])])]

AllOn == [c \in Channels |-> TRUE]
Unit == [c \in Channels |-> <<1, 0>>]
LongN == pedestal_length + Len(Big)
Tail1 == pedestal_length + 1
OnTail(shapes) == [e \in 1..Len(shapes) |-> <<shapes[e], Tail1>>]
AtStart(shapes) == [e \in 1..Len(shapes) |-> <<shapes[e], 1>>]

Catalog == <<
    \* 1: four channels; the second event fails the coincidence because channel 1
    \*    peaks exactly at the cut, and channel 3 has no rising edge there
    CaptureFile(AllOn, 4, LongN, 7, 2, Unit,
        [c \in Channels |-> CASE c = 0 -> OnTail(<<Big, Big>>)
                              [] c = 1 -> OnTail(<<Big, Edge>>)
                              [] c = 2 -> OnTail(<<Big, Late>>)
                              [] c = 3 -> OnTail(<<Big, Flat>>)]),
    \* 2: channel 0 peaks at the first sample in event 1, the trigger in event 2
    CaptureFile(AllOn, 4, LongN, 0, 2, Unit,
        [c \in Channels |-> CASE c = 0 -> <<<<Spike, 1>>, <<Big, Tail1>>>>
                              [] c = 1 -> OnTail(<<Big, Late>>)
                              [] c = 2 -> <<<<Big, Tail1>>, <<Spike, 1>>>>
                              [] c = 3 -> OnTail(<<Big, Late>>)]),
    \* 3: in the second event the trigger and channel 3 have no rising edge;
    \*    codes of half a millivolt
    CaptureFile(AllOn, 4, LongN, 0, 2, [c \in Channels |-> <<2, 0>>],
        [c \in Channels |-> CASE c = 0 -> OnTail(<<Big, Late>>)
                              [] c = 1 -> OnTail(<<Big, Big>>)
                              [] c = 2 -> <<<<Big, Tail1>>, <<Spike, 1>>>>
                              [] c = 3 -> OnTail(<<Late, Flat>>)]),
    \* 4: channel 3 not recorded; codes with an offset; the second event has
    \*    the peaks 20 mV, 20 mV and 1 mV
    CaptureFile([c \in Channels |-> c # 3], 3, LongN, 3, 4,
        [c \in Channels |-> <<1, 3>>],
        [c \in Channels |-> CASE c = 2 -> OnTail(<<Late, Noise>>)
                              [] OTHER -> OnTail(<<Big, Late>>)]),
    \* 5: channel 1 not recorded
    CaptureFile([c \in Channels |-> c # 1], 3, LongN, 0, 2, Unit,
        [c \in Channels |-> OnTail(<<Big, Late>>)]),
    \* 6: no channel recorded
    CaptureFile([c \in Channels |-> FALSE], 0, LongN, 0, 2, Unit,
        [c \in Channels |-> OnTail(<<Big, Big>>)]),
    \* 7: events of five samples, fewer than the pedestal window
    CaptureFile(AllOn, 4, Len(Big), 0, 2, Unit,
        [c \in Channels |-> AtStart(<<Big, Flat>>)]),
    \* 8: the mask names four channels, the dataset holds two rows
    CaptureFile(AllOn, 2, LongN, 0, 2, Unit,
        [c \in Channels |-> OnTail(<<Big, Big>>)]),
    \* 9: no event passes the coincidence
    CaptureFile(AllOn, 4, LongN, 0, 2, Unit,
        [c \in Channels |-> OnTail(<<Small, Small>>)]),
    \* 10: channel 1 has no rising edge in any event
    CaptureFile(AllOn, 4, LongN, 0, 2, Unit,
        [c \in Channels |-> CASE c = 1 -> AtStart(<<Spike, Spike>>)
                              [] OTHER -> OnTail(<<Big, Big>>)])
    >>

CaptureIds == 1..Len(Catalog)

---------------------------------------------------------------------------
(* What plotting_job computes of a capture, apart from the root-finder's    *)
(* outcomes: each capture's values are computed once.                       *)

\* data, attrs = extract_dataset(afile)
Loaded == Eager([c \in 1..Len(Catalog) |-> extract_dataset(Catalog[c])])

Readable == {c \in CaptureIds : Loaded[c].status = "ok"}

\* mask = (ch1 & ch2 & ch3)
Selected ==
    Eager([c \in 1..Len(Catalog) |-> IF c \in Readable THEN coincidence_mask(Loaded[c].data) ELSE <<>>])

\* plot_amplitude(data[:,mask,:], ch, ax=ax, gain_post=thegain)
Amplitudes ==
    Eager([c \in 1..Len(Catalog) |->
        IF c \in Readable
        THEN LET masked == MaskEvents(Loaded[c].data, Selected[c])
             IN  OnChannels(LAMBDA i : plot_amplitude(masked, i, scope_config.gains[i]))
        ELSE <<>>])

\* plot_charge(data[:,mask,:], ch, attrs['dt'], tc, ax=ax, gain_post=thegain)
Charges ==
    Eager([c \in 1..Len(Catalog) |->
        IF c \in Readable
        THEN LET masked == MaskEvents(Loaded[c].data, Selected[c])
             IN  OnChannels(LAMBDA i :
                     plot_charge(masked, i, Loaded[c].attrs.dt, scope_config.gains[i]))
        ELSE <<>>])

\* the crossing times taken of data[:,mask,:] in place of data
PreparedOnSelected ==
    Eager([c \in 1..Len(Catalog) |->
        IF c \in Readable
        THEN LET masked == MaskEvents(Loaded[c].data, Selected[c])
             IN  OnChannels(LAMBDA i :
                     tcross_prepare(masked[i], scope_config.thresholds[i],
                                    Loaded[c].attrs.dt, scope_config.gains[i],
                                    pedestal_length))
        ELSE <<>>])

\* calculate_tcross(data[ch], scope_config['thresholds'][ch], attrs['dt'], gain_post=thegain)
Prepared ==
    Eager([c \in 1..Len(Catalog) |->
        IF c \in Readable
        THEN OnChannels(LAMBDA i :
                 tcross_prepare(Loaded[c].data[i], scope_config.thresholds[i],
                                Loaded[c].attrs.dt, scope_config.gains[i],
                                pedestal_length))
        ELSE <<>>])

---------------------------------------------------------------------------
(* The program *)

NoCall ==
    [ch |-> -1, status |-> "none", t0s |-> <<>>, idx_max |-> <<>>,
     spline_calls |-> <<>>, newton_calls |-> <<>>, newton_result |-> <<>>]

\* one page of the report: what was drawn for which channel
Page(kind, c, values) == [kind |-> kind, ch |-> c, values |-> values]

\* processed_files = set(), before the first glob
Init ==
    /\ dir = {}
    /\ processed_files = {}
    /\ files_to_process = {}
    /\ pc = "poll"
    /\ afile = 0
    /\ cap = 0
    /\ mask = <<>>
    /\ ch = 0
    /\ trigger_t0s = None
    /\ measure_t0s = <<>>
    /\ pp = <<>>
    /\ tcross_log = NoCall
    /\ invoked = [p \in Paths |-> 0]
    /\ error = "none"

job_locals == <<cap, mask, ch, trigger_t0s, measure_t0s, pp, tcross_log>>
loop_state == <<processed_files, files_to_process, afile, invoked>>

\* The program reads the directory in glob and when plotting_job opens a file;
\* what happens to the directory while a job computes shows at the next of these.
ReadsDirectoryNext == pc \in {"poll", "sleep", "for"}

\* a capture file appears in data_path
Arrive(p) ==
    /\ ReadsDirectoryNext
    /\ p \notin dir
    /\ dir' = dir \cup {p}
    /\ UNCHANGED <<pc, error, loop_state, job_locals>>

\* a capture file is deleted from data_path
Remove(p) ==
    /\ ReadsDirectoryNext
    /\ p \in dir
    /\ dir' = dir \ {p}
    /\ UNCHANGED <<pc, error, loop_state, job_locals>>

\* the files of the directory, the processed ones among them
pending_all(files, processed) == files

\* files - processed_files
pending(files, processed) == files \ processed

\* while True: files = set(glob.glob(...)); files_to_process = files - processed_files
Poll ==
    /\ pc = "poll"
    /\ files_to_process' = pending(dir, processed_files)
    /\ pc' = IF files_to_process' # {} THEN "for" ELSE "sleep"
    /\ UNCHANGED <<dir, processed_files, afile, invoked, error, job_locals>>

\* else: time.sleep(1)
Sleep ==
    /\ pc = "sleep"
    /\ pc' = "poll"
    /\ UNCHANGED <<dir, error, loop_state, job_locals>>

\* an exception nothing catches ends the program
Raise(exception, pages) ==
    /\ pc' = "crashed"
    /\ error' = exception
    /\ pp' = pages

\* for afile in files_to_process: plotting_job(afile, ...) up to its channel loop.
\* The file a path names holds any capture of the catalogue.
StartJob(f) ==
    /\ pc = "for"
    /\ f \in files_to_process
    /\ files_to_process' = files_to_process \ {f}
    /\ afile' = f
    /\ invoked' = [invoked EXCEPT ![f] = IF @ < 2 THEN @ + 1 ELSE @]
    /\ ch' = 0
    /\ trigger_t0s' = None
    /\ measure_t0s' = <<>>
    /\ tcross_log' = NoCall
    /\ IF f \notin dir
       THEN /\ Raise("OSError", <<>>)
            /\ cap' = 0
            /\ mask' = <<>>
       ELSE \E c \in CaptureIds :
               /\ cap' = c
               /\ IF Loaded[c].status # "ok"
                  THEN /\ Raise(Loaded[c].status, <<>>)
                       /\ mask' = <<>>
                  ELSE /\ mask' = Selected[c]
                       /\ pp' = <<>>
                       /\ pc' = "channels"
                       /\ error' = error
    /\ UNCHANGED <<dir, processed_files>>

\* the for loop of the watch loop has visited every file
EndFor ==
    /\ pc = "for"
    /\ files_to_process = {}
    /\ pc' = "poll"
    /\ UNCHANGED <<dir, error, loop_state, job_locals>>

\* the trigger index taken as a channel number 1..4
is_trigger_one_based(c) == c + 1 = scope_config.trigger

\* if ch == scope_config['trigger']
is_trigger(c) == c = scope_config.trigger

\* for ch in range(4): one pass of plotting_job's channel loop
JobChannel ==
    /\ pc = "channels"
    /\ LET attrs == Loaded[cap].attrs
           after == IF ch = 3 THEN "compare" ELSE "channels"
       IN  IF ~attrs.chmask[ch]
           THEN /\ pc' = after
                /\ UNCHANGED <<error, pp, trigger_t0s, measure_t0s, tcross_log>>
           ELSE LET amplitude == <<Page("amplitude", ch, Amplitudes[cap][ch])>>
                    charge == Charges[cap][ch]
                    charged == amplitude \o <<Page("charge", ch, charge.charges)>>
                IN  IF charge.status # "ok"
                    THEN /\ Raise(charge.status, pp \o amplitude)
                         /\ UNCHANGED <<trigger_t0s, measure_t0s, tcross_log>>
                    ELSE \E outcomes \in [1..Len(Prepared[cap][ch]) -> NewtonOutcomes] :
                        LET r == calculate_tcross(Prepared[cap][ch], outcomes)
                            t0s == r.t0s
                            plot == plot_tcross(t0s, None)
                        IN  /\ tcross_log' =
                                   [ch |-> ch, status |-> r.status, t0s |-> r.t0s,
                                    idx_max |-> Eager(
                                        [e \in 1..Len(Prepared[cap][ch]) |->
                                            Prepared[cap][ch][e].idx_max]),
                                    spline_calls |-> r.spline_calls,
                                    newton_calls |-> r.newton_calls,
                                    newton_result |-> r.newton_result]
                            /\ IF r.status # "ok"
                               THEN /\ Raise(r.status, pp \o charged)
                                    /\ UNCHANGED <<trigger_t0s, measure_t0s>>
                               ELSE IF plot.status # "ok"
                               THEN /\ Raise(plot.status, pp \o charged)
                                    /\ UNCHANGED <<trigger_t0s, measure_t0s>>
                               ELSE /\ pp' = pp \o charged
                                              \o <<Page("tcross", ch, plot.to_plot)>>
                                    /\ IF is_trigger(ch)
                                       THEN /\ trigger_t0s' = Some(t0s)
                                            /\ UNCHANGED measure_t0s
                                       ELSE /\ measure_t0s' = measure_t0s @@ (ch :> t0s)
                                            /\ UNCHANGED trigger_t0s
                                    /\ pc' = after
                                    /\ error' = error
    /\ ch' = IF pc' = "crashed" THEN ch ELSE ch + 1
    /\ UNCHANGED <<dir, cap, mask, loop_state>>

\* for ch, t0s in measure_t0s.items(): the difference plots, in the order the
\* channels were entered
RECURSIVE compare_loop(_, _, _, _)
compare_loop(keys, measure, trigger, pages) ==
    IF keys = <<>> THEN [status |-> "ok", pages |-> pages]
    ELSE LET r == plot_tcross(measure[Head(keys)], trigger)
         IN  IF r.status # "ok"
             THEN [status |-> r.status, pages |-> pages]
             ELSE compare_loop(Tail(keys), measure, trigger,
                               Append(pages, Page("compare", Head(keys), r.to_plot)))

\* the second loop of plotting_job and pp.close()
JobCompare ==
    /\ pc = "compare"
    /\ LET keys == SelectSeq(<<0, 1, 2, 3>>, LAMBDA c : c \in DOMAIN measure_t0s)
           r == compare_loop(keys, measure_t0s, trigger_t0s, pp)
       IN  IF r.status # "ok"
           THEN Raise(r.status, r.pages)
           ELSE /\ pp' = r.pages
                /\ pc' = "returned"
                /\ error' = error
    /\ UNCHANGED <<dir, cap, mask, ch, trigger_t0s, measure_t0s, tcross_log, loop_state>>

\* processed_files.add(afile), after plotting_job returned; its locals are gone
MarkProcessed ==
    /\ pc = "returned"
    /\ processed_files' = processed_files \cup {afile}
    /\ pc' = "for"
    /\ cap' = 0
    /\ mask' = <<>>
    /\ ch' = 0
    /\ trigger_t0s' = None
    /\ measure_t0s' = <<>>
    /\ pp' = <<>>
    /\ tcross_log' = NoCall
    /\ UNCHANGED <<dir, files_to_process, afile, invoked, error>>

Next ==
    \/ \E p \in Paths : Arrive(p)
    \/ \E p \in Paths : Remove(p)
    \/ Poll
    \/ Sleep
    \/ \E f \in Paths : StartJob(f)
    \/ EndFor
    \/ JobChannel
    \/ JobCompare
    \/ MarkProcessed

Spec == Init /\ [][Next]_vars

---------------------------------------------------------------------------
(* What the properties below speak of *)

\* plotting_job has read a capture and is at work on it, has returned, or
\* has raised
InJob == pc \in {"channels", "compare", "returned"} \/ (pc = "crashed" /\ cap \in Readable)

ChMask(c) == Catalog[c].chmask
Active(c) == {i \in Channels : ChMask(c)[i]}

\* one millivolt in the units of the capture's normalized voltages
MillivoltOf(c) == PedestalWindow(Catalog[c].nPt, pedestal_length)

\* the normalized voltages of every channel and event of a capture
Normalized ==
    Eager([c \in 1..Len(Catalog) |->
        IF c \in Readable
        THEN OnChannels(LAMBDA i :
                 calculate_voltages(Loaded[c].data[i], scope_config.gains[i],
                                    pedestal_length))
        ELSE <<>>])

\* their peaks
Peaks ==
    Eager([c \in 1..Len(Catalog) |->
        IF c \in Readable
        THEN OnChannels(LAMBDA i :
                 Eager([e \in 1..Len(Normalized[c][i]) |-> Max(Normalized[c][i][e])]))
        ELSE <<>>])

\* the events whose largest value is the first sample
PeakAtFirstSample ==
    Eager([c \in 1..Len(Catalog) |->
        IF c \in Readable
        THEN OnChannels(LAMBDA i :
                 Eager([e \in 1..Len(Normalized[c][i]) |->
                     \A k \in 1..Len(Normalized[c][i][e]) :
                         Normalized[c][i][e][k] <= Normalized[c][i][e][1]]))
        ELSE <<>>])

\* amplitude and charge of every event of a capture
AllCharges ==
    Eager([c \in 1..Len(Catalog) |->
        IF c \in Readable
        THEN OnChannels(LAMBDA i :
                 calculate_charge(Loaded[c].data[i], Loaded[c].attrs.dt,
                                  scope_config.gains[i], pedestal_length))
        ELSE <<>>])

\* the coincidence of the recorded channels alone
ActiveOnlyMask ==
    Eager([c \in 1..Len(Catalog) |->
        IF c \in Readable
        THEN Eager([e \in 1..Events(Catalog[c]) |->
                 \A i \in Active(c) \cap {0, 1, 2} :
                     Peaks[c][i][e] > AmplitudeCut * MillivoltOf(c)])
        ELSE <<>>])

\* the crossing times plotting_job holds for channel i
Held(i) == IF is_trigger(i) THEN ~trigger_t0s.isNone ELSE i \in DOMAIN measure_t0s
T0sOf(i) == IF is_trigger(i) THEN trigger_t0s.t0s ELSE measure_t0s[i]

Pages(kind) == {k \in 1..Len(pp) : pp[k].kind = kind}

\* the events 1..n that satisfy Keep, in order
EventsWhere(n, Keep(_)) == SelectSeq([e \in 1..n |-> e], Keep)

---------------------------------------------------------------------------
(* The properties *)

\* C1: when plotting_job raises for a file the watch loop does not stop: the
\* program never ends on an exception.
WatchLoopSurvives == pc # "crashed"

\* C2: a channel that was not recorded is skipped and is no error: its zeros
\* leave the coincidence mask what the recorded channels make it, no page is
\* drawn for it, and plotting_job does not raise for want of selected events
\* when the recorded channels do select some.
InactiveChannelSkipped ==
    (InJob /\ Active(cap) # Channels) =>
        /\ mask = ActiveOnlyMask[cap]
        /\ \A k \in 1..Len(pp) : pp[k].ch \in Active(cap)
        /\ ~(pc = "crashed" /\ error = "ValueError"
             /\ \E e \in 1..Len(ActiveOnlyMask[cap]) : ActiveOnlyMask[cap][e])

\* C3: the coincidence mask has one entry per event, and an event is selected
\* iff the peak of each of the channels 0, 1, 2 is strictly above 0.015 V.
CoincidenceIsStrictAnd ==
    InJob =>
        /\ Len(mask) = Events(Catalog[cap])
        /\ \A e \in 1..Len(mask) :
               mask[e] <=> \A i \in {0, 1, 2} :
                               Peaks[cap][i][e] > AmplitudeCut * MillivoltOf(cap)

\* an event is rejected only because one channel peaks exactly at 0.015 V
CoincidenceAtTheCut ==
    /\ InJob
    /\ \E e \in 1..Len(mask), i \in {0, 1, 2} :
           /\ ~mask[e]
           /\ Peaks[cap][i][e] = AmplitudeCut * MillivoltOf(cap)
           /\ \A j \in {0, 1, 2} \ {i} :
                  Peaks[cap][j][e] > AmplitudeCut * MillivoltOf(cap)

\* C4, as stated: an event that peaks at sample 0 gets exactly -1.0 and neither
\* a spline nor a root-finder call; every event that peaks later gets exactly
\* one spline fit and one root-finder call.
EveryRisingEventFittedOnce ==
    tcross_log.status # "none" =>
        \A e \in 1..Len(tcross_log.idx_max) :
            IF tcross_log.idx_max[e] = 0
            THEN /\ tcross_log.spline_calls[e] = 0
                 /\ tcross_log.newton_calls[e] = 0
                 /\ tcross_log.status = "ok" => tcross_log.t0s[e] = NoEdge
            ELSE /\ tcross_log.spline_calls[e] = 1
                 /\ tcross_log.newton_calls[e] = 1

\* C4, amended: an event that peaks at sample 0 gets exactly -1.0 and neither a
\* spline nor a root-finder call; when calculate_tcross returns, every event
\* that peaks later got exactly one spline fit and one root-finder call; when
\* it raises, the events up to the one the root-finder failed on got exactly
\* one, and the events after it none.
RisingEventsFittedOnceUntilFailure ==
    tcross_log.status # "none" =>
        \A e \in 1..Len(tcross_log.idx_max) :
            LET reached == \A d \in 1..(e - 1) : tcross_log.newton_result[d] # "failed"
            IN  IF tcross_log.idx_max[e] = 0
                THEN /\ tcross_log.spline_calls[e] = 0
                     /\ tcross_log.newton_calls[e] = 0
                     /\ tcross_log.status = "ok" => tcross_log.t0s[e] = NoEdge
                ELSE /\ tcross_log.spline_calls[e] = (IF reached THEN 1 ELSE 0)
                     /\ tcross_log.newton_calls[e] = (IF reached THEN 1 ELSE 0)
                     /\ tcross_log.status = "ok" => reached

\* calculate_tcross returned for a channel with an event that peaks at sample 0
\* and one that peaks later
ReturnedWithAndWithoutEdge ==
    /\ tcross_log.status = "ok"
    /\ \E e \in 1..Len(tcross_log.idx_max) :
           tcross_log.idx_max[e] = 0 /\ tcross_log.t0s[e] = NoEdge
    /\ \E e \in 1..Len(tcross_log.idx_max) :
           tcross_log.idx_max[e] > 0 /\ tcross_log.newton_calls[e] = 1

\* C5: when the root-finder does not converge for an event, calculate_tcross
\* raises (RuntimeError, which no crossing time is) and returns nothing: the
\* exception leaves plotting_job, which holds and draws no crossing times for
\* that channel.
RootFindFailurePropagates ==
    (\E e \in 1..Len(tcross_log.newton_result) : tcross_log.newton_result[e] = "failed") =>
        /\ tcross_log.status = "RuntimeError"
        /\ tcross_log.t0s = <<>>
        /\ pc = "crashed"
        /\ error = "RuntimeError"
        /\ ~Held(tcross_log.ch)
        /\ \A k \in Pages("tcross") \cup Pages("compare") : pp[k].ch # tcross_log.ch

\* the root-finder failed on the second event after it converged on the first
FailedAfterConverged ==
    /\ pc = "crashed"
    /\ error = "RuntimeError"
    /\ tcross_log.newton_result = <<"converged", "failed">>

\* C6: a pedestal window of at least the capture's sample count is rejected
\* before anything is computed: plotting_job ends in an error and has neither
\* a mask nor a page.
PedestalWindowRejected ==
    (InJob /\ pedestal_length >= Catalog[cap].nPt) =>
        /\ pc = "crashed"
        /\ error = "ConfigurationError"
        /\ mask = <<>>
        /\ pp = <<>>

\* C7: the amplitude and charge pages hold the values of exactly the events
\* the mask selects, in event order; every crossing-time array plotting_job
\* holds has one entry per event of the capture, in event order (the entry is
\* -1.0 exactly for the events that peak at sample 0).
FeaturesOnSelectedCrossingsOnAll ==
    InJob =>
        /\ \A k \in Pages("amplitude") :
               pp[k].values = Compress(Peaks[cap][pp[k].ch], mask)
        /\ \A k \in Pages("charge") :
               pp[k].values = Compress(AllCharges[cap][pp[k].ch], mask)
        /\ \A i \in Channels :
               Held(i) =>
                   /\ Len(T0sOf(i)) = Events(Catalog[cap])
                   /\ \A e \in 1..Len(T0sOf(i)) :
                          (T0sOf(i)[e] = NoEdge) <=> PeakAtFirstSample[cap][i][e]

\* plotting_job returned for a capture of which the mask selects some events
\* and not others
ReturnedWithPartialMask ==
    /\ pc = "returned"
    /\ \E e \in 1..Len(mask) : mask[e]
    /\ \E e \in 1..Len(mask) : ~mask[e]
    /\ Pages("charge") # {}
    /\ ~trigger_t0s.isNone

ProcessedFilesAppendOnly ==
    [][/\ processed_files \subseteq processed_files'
       /\ processed_files' # processed_files =>
              /\ pc = "returned"
              /\ processed_files' = processed_files \cup {afile}
       /\ \A p \in Paths :
              invoked'[p] # invoked[p] =>
                  /\ p \notin processed_files
                  /\ invoked[p] = 0
                  /\ invoked'[p] = 1]_vars

\* a poll found nothing to do although a processed file is in the directory
PollSkippedProcessedFile ==
    /\ pc = "sleep"
    /\ processed_files \cap dir # {}

\* C10: a page of crossing times holds the channel's crossing times above -0.5
\* and no other; a difference page holds, in event order, the difference of
\* the two crossing times of each event in which both the channel's and the
\* trigger's are above -0.5, and of no other event.
SentinelsExcluded ==
    InJob =>
        /\ \A k \in Pages("tcross") :
               /\ Held(pp[k].ch)
               /\ LET t == T0sOf(pp[k].ch)
                      valid == EventsWhere(Len(t), LAMBDA e : t[e] > ValidCut)
                  IN  pp[k].values = [j \in 1..Len(valid) |-> t[valid[j]]]
        /\ \A k \in Pages("compare") :
               /\ ~trigger_t0s.isNone
               /\ LET t == measure_t0s[pp[k].ch]
                      g == trigger_t0s.t0s
                      valid == EventsWhere(Len(t),
                                   LAMBDA e : t[e] > ValidCut /\ g[e] > ValidCut)
                  IN  pp[k].values = [j \in 1..Len(valid) |-> t[valid[j]] - g[valid[j]]]

\* plotting_job returned with a difference page that leaves out an event in
\* which the measurement channel crossed and the trigger did not
ReturnedWithoutTriggerlessEvent ==
    /\ pc = "returned"
    /\ \E k \in Pages("compare"), e \in 1..Len(trigger_t0s.t0s) :
           /\ trigger_t0s.t0s[e] = NoEdge
           /\ measure_t0s[pp[k].ch][e] > ValidCut
           /\ Len(pp[k].values) < Len(trigger_t0s.t0s)

====
